---- MODULE Spec2Model ----
(***************************************************************************)
(* FileDetection (src/file_detection.py): a daemon watcher thread reads    *)
(* directory change notifications; on the first event for the watched file *)
(* name it kills every process named PROCESS_NAME, truncates the watched   *)
(* file (5 attempts, retry on PermissionError) and clears IS_RUNNING; the  *)
(* main thread polls IS_RUNNING once a second and waits for Enter.         *)
(*                                                                         *)
(* Two threads are interleaved at statement granularity: the main thread   *)
(* (actions C_...) and the watcher thread (actions W_...).  The operating  *)
(* system is the environment: it chooses the content of each notification  *)
(* batch, the outcome of each proc.kill() and of each open(), and when the *)
(* user presses Ctrl-C or Enter.                                           *)
(***************************************************************************)
EXTENDS Integers, Sequences, FiniteSets, TLC

\* ---------------------------------------------------------------- bounds
MaxArgc == 4      \* len(sys.argv) ranges over 1..MaxArgc
MaxProcs == 2     \* processes in the process table, pids 1..MaxProcs
MaxLen == 1       \* initial length of the watched file, 0..MaxLen
MaxBatch == 2     \* events in one ReadDirectoryChangesW result, 0..MaxBatch
MaxReads == 2     \* batches the operating system delivers in one run

\* ------------------------------------------------------------- constants
\* a loop that makes one attempt too few
max_retries_short == 5 - 1

\* max_retries = 5
max_retries == 5

\* FILE_TO_WATCH = sys.argv[1], as the pair os.path.split gives
FILE_TO_WATCH == [dir |-> "logs", name |-> "app.log"]
\* PROCESS_NAME = sys.argv[2]
PROCESS_NAME == "app.exe"

basename(path) == path.name

\* file names the directory can report, process names the table can hold
FileNames == {"app.log", "other.log"}
ProcNames == {"app.exe", "other.exe"}
Pids == 1..MaxProcs

\* the action codes of ReadDirectoryChangesW: added, removed, modified,
\* renamed (old name), renamed (new name)
FileActions == 1..5
Events == FileActions \X FileNames
Batches == UNION {[1..n -> Events] : n \in 0..MaxBatch}

\* outcomes of proc.kill(): done, or psutil.NoSuchProcess / AccessDenied raised
KillOutcomes == {"ok", "NoSuchProcess", "AccessDenied"}
\* outcomes of open(file_path, 'w'): opened, PermissionError (the file is
\* locked), or another OSError
OpenOutcomes == {"ok", "locked", "error"}

VARIABLES
    argc,          \* len(sys.argv)
    dirOk,         \* whether CreateFile on the directory succeeds
    procName,      \* process table as process_iter finds it when the kill
                   \* step is entered: pid -> name ("" before that)
    alive,         \* pids still running
    file0,         \* the watched file at program start: [exists, len]
    fileExists,    \* the watched file now
    fileLen,
    IS_RUNNING,    \* the global flag
    cpc,           \* main thread position
    cpath,         \* controller states passed through, in order
    exitCode,      \* process exit status, -1 while running
    usagePrinted,  \* the usage line was printed
    ackWaits,      \* number of times input() was entered
    wpc,           \* watcher thread position
    wexc,          \* exception that ended the watcher thread, "none" if none
    h_dir,         \* the directory handle is open
    results,       \* events of the current batch not yet iterated
    reads,         \* batches delivered so far
    everMatched,   \* some delivered batch held an event for the target name
    batchLen,      \* number of events in the last delivered batch, 0 once
                   \* one of them has matched
    batchMatches,  \* events for the target name in the last delivered batch
    lateMatch,     \* the responder was entered while the main thread was
                   \* in input() after a KeyboardInterrupt
                   \* (batchMatches and lateMatch describe the running
                   \* monitor_file: 0 and FALSE once it has returned or raised)
    lastAction,    \* monitor_file's local `action` while the responder runs:
                   \* the code of the event that matched; 0 before, and
                   \* once monitor_file has returned or raised
    kidx,          \* position of process_iter
    killCalls,     \* pids on which proc.kill() was called, in order
    attempt,       \* loop variable of clear_file_content
    opens,         \* outcome of each open() attempt, in order
    delays,        \* number of time.sleep(1) taken in clear_file_content
    corruptedMsgs, \* number of "The file is corrupted" lines printed
    log            \* responder steps in order: "kill" and "clear" (the two
                   \* calls), "killcall" (a proc.kill()), "open" (an open()),
                   \* "stop" (IS_RUNNING = False)

vars == <<argc, dirOk, procName, alive, file0, fileExists, fileLen, IS_RUNNING,
          cpc, cpath, exitCode, usagePrinted, ackWaits, wpc, wexc, h_dir,
          results, reads, everMatched, batchLen, batchMatches, lateMatch,
          lastAction, kidx,
          killCalls, attempt, opens, delays, corruptedMsgs, log>>

envVars == <<argc, dirOk, file0>>
ctlVars == <<cpc, cpath, exitCode, usagePrinted, ackWaits>>
procVars == <<procName, alive, kidx, killCalls>>
fileVars == <<fileExists, fileLen, attempt, opens, delays, corruptedMsgs>>
readVars == <<results, reads, everMatched, batchLen, batchMatches, lateMatch>>
\* the part of readVars that outlives monitor_file
keptVars == <<results, reads, everMatched, batchLen>>

Range(s) == {s[i] : i \in 1..Len(s)}
Count(s, x) == Cardinality({i \in 1..Len(s) : s[i] = x})

Init ==
    /\ argc \in 1..MaxArgc
    /\ dirOk \in BOOLEAN
    /\ procName = [p \in Pids |-> ""]
    /\ alive = Pids
    /\ file0 \in {[exists |-> TRUE, len |-> n] : n \in 0..MaxLen}
                 \cup {[exists |-> FALSE, len |-> 0]}
    /\ fileExists = file0.exists
    /\ fileLen = file0.len
    /\ IS_RUNNING = TRUE
    /\ cpc = "check_args"
    /\ cpath = <<"Starting">>
    /\ exitCode = -1
    /\ usagePrinted = FALSE
    /\ ackWaits = 0
    /\ wpc = "not_started"
    /\ wexc = "none"
    /\ h_dir = FALSE
    /\ results = <<>>
    /\ reads = 0
    /\ everMatched = FALSE
    /\ batchLen = 0
    /\ batchMatches = 0
    /\ lateMatch = FALSE
    /\ lastAction = 0
    /\ kidx = 0
    /\ killCalls = <<>>
    /\ attempt = 0
    /\ opens = <<>>
    /\ delays = 0
    /\ corruptedMsgs = 0
    /\ log = <<>>

\* ------------------------------------------------------------ main thread
\* a check that rejects too few arguments only
ArgsOk_AtLeast == argc >= 3

\* if len(sys.argv) != 3: usage, sys.exit(1)
ArgsOk == argc = 3

\* the daemon watcher thread runs only while the process has not exited
ProcessAlive == cpc # "exited"

\* lines 83-90: the argument check
C_CheckArgs ==
    /\ cpc = "check_args"
    /\ IF ArgsOk
       THEN /\ cpc' = "start_thread"
            /\ UNCHANGED <<cpath, exitCode, usagePrinted>>
       ELSE /\ usagePrinted' = TRUE
            /\ exitCode' = 1
            /\ cpc' = "exited"
            /\ cpath' = Append(cpath, "Terminated")
    /\ UNCHANGED <<envVars, procVars, fileVars, readVars, IS_RUNNING, ackWaits,
                   wpc, wexc, h_dir, lastAction, log>>

\* lines 92-96: the thread is created and started, the try block is entered
C_StartThread ==
    /\ cpc = "start_thread"
    /\ wpc' = "open_dir"
    /\ cpc' = "while"
    /\ cpath' = Append(cpath, "Watching")
    /\ UNCHANGED <<envVars, procVars, fileVars, readVars, IS_RUNNING, exitCode,
                   usagePrinted, ackWaits, wexc, h_dir, lastAction, log>>

\* a wait loop that never looks at the flag again
C_While_Stale ==
    /\ cpc = "while"
    /\ cpc' = "sleep"
    /\ UNCHANGED <<envVars, procVars, fileVars, readVars, IS_RUNNING, cpath,
                   exitCode, usagePrinted, ackWaits, wpc, wexc, h_dir,
                   lastAction, log>>

\* line 97: while IS_RUNNING
C_While ==
    /\ cpc = "while"
    /\ IF IS_RUNNING
       THEN /\ cpc' = "sleep"
            /\ UNCHANGED cpath
       ELSE /\ cpc' = "triggered"
            /\ cpath' = Append(cpath, "Triggered")
    /\ UNCHANGED <<envVars, procVars, fileVars, readVars, IS_RUNNING, exitCode,
                   usagePrinted, ackWaits, wpc, wexc, h_dir, lastAction, log>>

\* line 98: time.sleep(1) returns
C_Sleep ==
    /\ cpc = "sleep"
    /\ cpc' = "while"
    /\ UNCHANGED <<envVars, procVars, fileVars, readVars, IS_RUNNING, cpath,
                   exitCode, usagePrinted, ackWaits, wpc, wexc, h_dir,
                   lastAction, log>>

\* an interrupt handler that clears the flag to stop the watcher
C_Interrupt_ClearsFlag ==
    /\ cpc \in {"while", "sleep"}
    /\ cpc' = "interrupted"
    /\ IS_RUNNING' = FALSE
    /\ cpath' = Append(cpath, "Interrupted")
    /\ UNCHANGED <<envVars, procVars, fileVars, readVars, exitCode,
                   usagePrinted, ackWaits, wpc, wexc, h_dir, lastAction, log>>

\* lines 99-100: Ctrl-C inside the try block, caught by except KeyboardInterrupt
\* (the user's interrupt is taken while the main thread is in the wait loop,
\* here, or in input(), C_AckAbort)
C_Interrupt ==
    /\ cpc \in {"while", "sleep"}
    /\ cpc' = "interrupted"
    /\ cpath' = Append(cpath, "Interrupted")
    /\ UNCHANGED <<envVars, procVars, fileVars, readVars, IS_RUNNING, exitCode,
                   usagePrinted, ackWaits, wpc, wexc, h_dir, lastAction, log>>

\* a main block without the final input(): the process exits at once
C_Finally_NoInput ==
    /\ cpc \in {"triggered", "interrupted"}
    /\ cpc' = "exited"
    /\ exitCode' = 0
    /\ cpath' = Append(cpath, "Terminated")
    /\ UNCHANGED <<envVars, procVars, fileVars, readVars, IS_RUNNING,
                   usagePrinted, ackWaits, wpc, wexc, h_dir, lastAction, log>>

\* lines 101-102: the finally clause calls input()
C_Finally ==
    /\ cpc \in {"triggered", "interrupted"}
    /\ cpc' = "input"
    /\ ackWaits' = ackWaits + 1
    /\ cpath' = Append(cpath, "AwaitingAck")
    /\ UNCHANGED <<envVars, procVars, fileVars, readVars, IS_RUNNING, exitCode,
                   usagePrinted, wpc, wexc, h_dir, lastAction, log>>

\* line 102: the user presses Enter, the module ends, the process exits 0
C_Ack ==
    /\ cpc = "input"
    /\ cpc' = "exited"
    /\ exitCode' = 0
    /\ cpath' = Append(cpath, "Terminated")
    /\ UNCHANGED <<envVars, procVars, fileVars, readVars, IS_RUNNING,
                   usagePrinted, ackWaits, wpc, wexc, h_dir, lastAction, log>>

\* line 102: input() raises (Ctrl-C, or end of input) out of the finally
\* clause: the exception is unhandled and the process exits non-zero
C_AckAbort ==
    /\ cpc = "input"
    /\ cpc' = "exited"
    /\ exitCode' = 1
    /\ cpath' = Append(cpath, "Terminated")
    /\ UNCHANGED <<envVars, procVars, fileVars, readVars, IS_RUNNING,
                   usagePrinted, ackWaits, wpc, wexc, h_dir, lastAction, log>>

\* --------------------------------------------------------- watcher thread
\* lines 56-64: CreateFile on os.path.dirname(file_to_watch); a failure raises
\* in the watcher thread, which ends, while the main thread goes on
W_OpenDir ==
    /\ ProcessAlive
    /\ wpc = "open_dir"
    /\ IF dirOk
       THEN /\ h_dir' = TRUE
            /\ wpc' = "while"
            /\ UNCHANGED wexc
       ELSE /\ wpc' = "crashed"
            /\ wexc' = "CreateFile"
            /\ UNCHANGED h_dir
    /\ UNCHANGED <<envVars, ctlVars, procVars, fileVars, readVars, IS_RUNNING,
                   lastAction, log>>

\* line 66: while IS_RUNNING
W_While ==
    /\ ProcessAlive
    /\ wpc = "while"
    /\ wpc' = IF IS_RUNNING THEN "read" ELSE "returned"
    /\ lastAction' = IF IS_RUNNING THEN lastAction ELSE 0
    /\ batchMatches' = IF IS_RUNNING THEN batchMatches ELSE 0
    /\ lateMatch' = (IS_RUNNING /\ lateMatch)
    /\ UNCHANGED <<envVars, ctlVars, procVars, fileVars, keptVars, IS_RUNNING,
                   wexc, h_dir, log>>

\* a watcher that reacts to every file of the directory
Matches_AnyFile(filename) == filename \in FileNames

\* filename == os.path.basename(file_to_watch)
Matches(filename) == filename = basename(FILE_TO_WATCH)

\* the events of a batch that are for the watched file's name
EventsFor(batch) ==
    Cardinality({i \in 1..Len(batch) : batch[i][2] = FILE_TO_WATCH.name})

\* lines 67-72: ReadDirectoryChangesW returns a batch of (action, filename)
W_Read ==
    /\ ProcessAlive
    /\ wpc = "read"
    /\ reads < MaxReads
    /\ \E batch \in Batches :
          /\ results' = batch
          /\ batchLen' = Len(batch)
          /\ batchMatches' = EventsFor(batch)
          /\ everMatched' = (everMatched \/ EventsFor(batch) > 0)
    /\ reads' = reads + 1
    /\ wpc' = "for"
    /\ UNCHANGED <<envVars, ctlVars, procVars, fileVars, IS_RUNNING, wexc,
                   h_dir, lateMatch, lastAction, log>>

\* lines 73-74: the next event is for another file name
W_ForSkip ==
    /\ ProcessAlive
    /\ wpc = "for"
    /\ results # <<>>
    /\ ~Matches(Head(results)[2])
    /\ results' = Tail(results)
    /\ UNCHANGED <<envVars, ctlVars, procVars, fileVars, IS_RUNNING, wpc, wexc,
                   h_dir, reads, everMatched, batchLen, batchMatches,
                   lateMatch, lastAction, log>>

\* line 73: the batch is exhausted with no match, back to the while test
W_ForEnd ==
    /\ ProcessAlive
    /\ wpc = "for"
    /\ results = <<>>
    /\ wpc' = "while"
    /\ UNCHANGED <<envVars, ctlVars, procVars, fileVars, readVars, IS_RUNNING,
                   wexc, h_dir, lastAction, log>>

\* a loop body without the break: the rest of the batch is iterated
AfterMatch_NoBreak(rest) == rest

\* line 79: the body of a match ends in an unconditional break (and an
\* exception leaves the loop as well), so once an event matches, none of the
\* events after it in the batch is ever iterated
AfterMatch(rest) == <<>>

\* a watcher that reacts to modifications only (action code 3)
W_ForMatch_ModifiedOnly ==
    /\ ProcessAlive
    /\ wpc = "for"
    /\ results # <<>>
    /\ Matches(Head(results)[2])
    /\ Head(results)[1] = 3
    /\ lastAction' = Head(results)[1]
    /\ lateMatch' = (cpc = "input" /\ "Interrupted" \in Range(cpath))
    /\ results' = AfterMatch(Tail(results))
    /\ log' = Append(log, "kill")
    /\ procName' \in [Pids -> ProcNames]
    /\ kidx' = 1
    /\ wpc' = "kill"
    /\ batchLen' = 0
    /\ UNCHANGED <<envVars, ctlVars, fileVars, IS_RUNNING, wexc, h_dir, reads,
                   everMatched, batchMatches, alive, killCalls>>

\* a responder that calls clear_file_content first and never kills
W_ForMatch_ClearFirst ==
    /\ ProcessAlive
    /\ wpc = "for"
    /\ results # <<>>
    /\ Matches(Head(results)[2])
    /\ lastAction' = Head(results)[1]
    /\ lateMatch' = (cpc = "input" /\ "Interrupted" \in Range(cpath))
    /\ results' = AfterMatch(Tail(results))
    /\ log' = Append(log, "clear")
    /\ attempt' = 0
    /\ wpc' = "clear"
    /\ batchLen' = 0
    /\ UNCHANGED <<envVars, ctlVars, procVars, IS_RUNNING, wexc, h_dir, reads,
                   everMatched, batchMatches, fileExists, fileLen, opens,
                   delays, corruptedMsgs>>

\* lines 74-76 and 32: the next event is for the watched file name, whatever
\* its action code: kill_process_by_name(process_name) is called and
\* process_iter enumerates the processes running at that moment
W_ForMatch ==
    /\ ProcessAlive
    /\ wpc = "for"
    /\ results # <<>>
    /\ Matches(Head(results)[2])
    /\ lastAction' = Head(results)[1]
    /\ lateMatch' = (cpc = "input" /\ "Interrupted" \in Range(cpath))
    /\ results' = AfterMatch(Tail(results))
    /\ log' = Append(log, "kill")
    /\ procName' \in [Pids -> ProcNames]
    /\ kidx' = 1
    /\ wpc' = "kill"
    /\ batchLen' = 0
    /\ UNCHANGED <<envVars, ctlVars, fileVars, IS_RUNNING, wexc, h_dir, reads,
                   everMatched, batchMatches, alive, killCalls>>

\* lines 32-33: process_iter yields a process of another name (or the process
\* is gone and is not yielded)
W_KillSkip ==
    /\ ProcessAlive
    /\ wpc = "kill"
    /\ kidx \in Pids
    /\ (kidx \notin alive \/ procName[kidx] # PROCESS_NAME)
    /\ kidx' = kidx + 1
    /\ UNCHANGED <<envVars, ctlVars, fileVars, readVars, IS_RUNNING, wpc, wexc,
                   h_dir, lastAction, log, procName, alive, killCalls>>

\* a kill loop that stops after the first process it kills
W_KillCall_FirstOnly ==
    /\ ProcessAlive
    /\ wpc = "kill"
    /\ kidx \in Pids
    /\ kidx \in alive
    /\ procName[kidx] = PROCESS_NAME
    /\ killCalls' = Append(killCalls, kidx)
    /\ log' = Append(log, "killcall")
    /\ \E outcome \in KillOutcomes :
          IF outcome = "ok"
          THEN /\ alive' = alive \ {kidx}
               /\ kidx' = MaxProcs + 1
               /\ UNCHANGED <<wpc, wexc, lastAction, batchMatches, lateMatch>>
          ELSE /\ alive' = IF outcome = "NoSuchProcess"
                           THEN alive \ {kidx} ELSE alive
               /\ wpc' = "crashed"
               /\ wexc' = outcome
               /\ lastAction' = 0
               /\ batchMatches' = 0
               /\ lateMatch' = FALSE
               /\ UNCHANGED kidx
    /\ UNCHANGED <<envVars, ctlVars, fileVars, keptVars, IS_RUNNING, h_dir,
                   procName>>

\* lines 33-35: a process of the selected name: proc.kill().  NoSuchProcess
\* and AccessDenied are caught nowhere: they leave kill_process_by_name and
\* monitor_file and end the watcher thread
W_KillCall ==
    /\ ProcessAlive
    /\ wpc = "kill"
    /\ kidx \in Pids
    /\ kidx \in alive
    /\ procName[kidx] = PROCESS_NAME
    /\ killCalls' = Append(killCalls, kidx)
    /\ log' = Append(log, "killcall")
    /\ \E outcome \in KillOutcomes :
          IF outcome = "ok"
          THEN /\ alive' = alive \ {kidx}
               /\ kidx' = kidx + 1
               /\ UNCHANGED <<wpc, wexc, lastAction, batchMatches, lateMatch>>
          ELSE /\ alive' = IF outcome = "NoSuchProcess"
                           THEN alive \ {kidx} ELSE alive
               /\ wpc' = "crashed"
               /\ wexc' = outcome
               /\ lastAction' = 0
               /\ batchMatches' = 0
               /\ lateMatch' = FALSE
               /\ UNCHANGED kidx
    /\ UNCHANGED <<envVars, ctlVars, fileVars, keptVars, IS_RUNNING, h_dir,
                   procName>>

\* a responder that clears the flag before it truncates
W_KillReturn_FlagFirst ==
    /\ ProcessAlive
    /\ wpc = "kill"
    /\ kidx \notin Pids
    /\ IS_RUNNING' = FALSE
    /\ log' = Append(Append(log, "stop"), "clear")
    /\ attempt' = 0
    /\ wpc' = "clear"
    /\ UNCHANGED <<envVars, ctlVars, procVars, readVars, wexc, h_dir,
                   lastAction, fileExists, fileLen, opens, delays,
                   corruptedMsgs>>

\* line 77: kill_process_by_name returned, clear_file_content(file_to_watch)
\* is called
W_KillReturn ==
    /\ ProcessAlive
    /\ wpc = "kill"
    /\ kidx \notin Pids
    /\ log' = Append(log, "clear")
    /\ attempt' = 0
    /\ wpc' = "clear"
    /\ UNCHANGED <<envVars, ctlVars, procVars, readVars, IS_RUNNING, wexc,
                   h_dir, lastAction, fileExists, fileLen, opens, delays,
                   corruptedMsgs>>

\* lines 41-47: one pass of for attempt in range(max_retries): open(.., 'w')
\* creates or truncates the file; PermissionError goes to the sleep; any
\* other error leaves clear_file_content and ends the watcher thread
W_ClearAttempt ==
    /\ ProcessAlive
    /\ wpc = "clear"
    /\ attempt < max_retries
    /\ \E outcome \in OpenOutcomes :
          /\ opens' = Append(opens, outcome)
          /\ log' = Append(log, "open")
          /\ CASE outcome = "ok" ->
                    /\ fileExists' = TRUE
                    /\ fileLen' = 0
                    /\ corruptedMsgs' = corruptedMsgs + 1
                    /\ wpc' = "set_flag"
                    /\ UNCHANGED <<wexc, lastAction, batchMatches, lateMatch>>
               [] outcome = "locked" ->
                    /\ wpc' = "retry_sleep"
                    /\ UNCHANGED <<fileExists, fileLen, corruptedMsgs, wexc,
                                   lastAction, batchMatches, lateMatch>>
               [] outcome = "error" ->
                    /\ wpc' = "crashed"
                    /\ wexc' = "OSError"
                    /\ lastAction' = 0
                    /\ batchMatches' = 0
                    /\ lateMatch' = FALSE
                    /\ UNCHANGED <<fileExists, fileLen, corruptedMsgs>>
    /\ UNCHANGED <<envVars, ctlVars, procVars, keptVars, IS_RUNNING, h_dir,
                   attempt, delays>>

\* line 49: time.sleep(1) in the except clause, then the next attempt
W_RetrySleep ==
    /\ ProcessAlive
    /\ wpc = "retry_sleep"
    /\ delays' = delays + 1
    /\ attempt' = attempt + 1
    /\ wpc' = "clear"
    /\ UNCHANGED <<envVars, ctlVars, procVars, readVars, IS_RUNNING, wexc,
                   h_dir, lastAction, log, fileExists, fileLen, opens,
                   corruptedMsgs>>

\* a truncate step that prints its message when it gives up as well
W_ClearGiveUp_Print ==
    /\ ProcessAlive
    /\ wpc = "clear"
    /\ attempt >= max_retries
    /\ corruptedMsgs' = corruptedMsgs + 1
    /\ wpc' = "set_flag"
    /\ UNCHANGED <<envVars, ctlVars, procVars, readVars, IS_RUNNING, wexc,
                   h_dir, lastAction, log, fileExists, fileLen, attempt, opens,
                   delays>>

\* a retry loop that raises once the attempts are used up
W_ClearGiveUp_Raise ==
    /\ ProcessAlive
    /\ wpc = "clear"
    /\ attempt >= max_retries
    /\ wpc' = "crashed"
    /\ wexc' = "PermissionError"
    /\ lastAction' = 0
    /\ batchMatches' = 0
    /\ lateMatch' = FALSE
    /\ UNCHANGED <<envVars, ctlVars, procVars, fileVars, keptVars, IS_RUNNING,
                   h_dir, log>>

\* line 41: the range is exhausted, clear_file_content returns
W_ClearGiveUp ==
    /\ ProcessAlive
    /\ wpc = "clear"
    /\ attempt >= max_retries
    /\ wpc' = "set_flag"
    /\ UNCHANGED <<envVars, ctlVars, procVars, fileVars, readVars, IS_RUNNING,
                   wexc, h_dir, lastAction, log>>

\* lines 78-79: IS_RUNNING = False, break: nothing is left to iterate, back
\* to the while test
W_SetFlag ==
    /\ ProcessAlive
    /\ wpc = "set_flag"
    /\ IS_RUNNING' = FALSE
    /\ log' = Append(log, "stop")
    /\ wpc' = IF results = <<>> THEN "while" ELSE "for"
    /\ UNCHANGED <<envVars, ctlVars, procVars, fileVars, readVars, wexc, h_dir,
                   lastAction>>

Next ==
    \/ C_CheckArgs
    \/ C_StartThread
    \/ C_While
    \/ C_Sleep
    \/ C_Interrupt
    \/ C_Finally
    \/ C_Ack
    \/ C_AckAbort
    \/ W_OpenDir
    \/ W_While
    \/ W_Read
    \/ W_ForSkip
    \/ W_ForEnd
    \/ W_ForMatch
    \/ W_KillSkip
    \/ W_KillCall
    \/ W_KillReturn
    \/ W_ClearAttempt
    \/ W_RetrySleep
    \/ W_ClearGiveUp
    \/ W_SetFlag

Spec == Init /\ [][Next]_vars

\* Both threads are scheduled fairly: a thread that can take its next step
\* takes it.  Fairness is not assumed of the environment: the delivery of a
\* batch (W_Read) and the user's Ctrl-C and Enter (C_Interrupt, C_Ack,
\* C_AckAbort) may never happen.
MainThreadStep ==
    C_CheckArgs \/ C_StartThread \/ C_While \/ C_Sleep \/ C_Finally

WatcherThreadStep ==
    \/ W_OpenDir
    \/ W_While
    \/ W_ForSkip
    \/ W_ForEnd
    \/ W_ForMatch
    \/ W_KillSkip
    \/ W_KillCall
    \/ W_KillReturn
    \/ W_ClearAttempt
    \/ W_RetrySleep
    \/ W_ClearGiveUp
    \/ W_SetFlag

FairSpec ==
    /\ Init
    /\ [][Next]_vars
    /\ WF_vars(MainThreadStep)
    /\ WF_vars(WatcherThreadStep)

TypeOK ==
    /\ argc \in 1..MaxArgc
    /\ IS_RUNNING \in BOOLEAN
    /\ cpc \in {"check_args", "start_thread", "while", "sleep", "triggered",
                "interrupted", "input", "exited"}
    /\ wpc \in {"not_started", "open_dir", "while", "read", "for", "kill",
                "clear", "retry_sleep", "set_flag", "returned", "crashed"}
    /\ exitCode \in {-1, 0, 1}
    /\ alive \subseteq Pids
    /\ fileLen \in 0..MaxLen

\* ------------------------------------------------------------- properties
IsPrefix(s, t) == Len(s) <= Len(t) /\ \A i \in 1..Len(s) : s[i] = t[i]
Last(s) == s[Len(s)]
AllLocked(s) == \A i \in 1..Len(s) : s[i] = "locked"

\* the watcher thread has ended: monitor_file returned or raised
WatcherEnded == wpc \in {"returned", "crashed"}
\* the responder was entered (a matching event was iterated)
ResponderEntered == log # <<>>
\* clear_file_content was called and has returned normally
ClearReturned ==
    /\ "clear" \in Range(log)
    /\ wpc \in {"set_flag", "while", "for", "returned"}
\* pids of the processes named PROCESS_NAME
Selected == {p \in Pids : procName[p] = PROCESS_NAME}

\* C1: the kill step is entered before the truncate step, every proc.kill()
\* comes before the first open() of the truncate step, and IS_RUNNING is
\* false only once the kill step has run and an open() has been attempted
\* after it, whatever the outcomes of the kills and of the opens.
C1_KillThenTruncateThenStop ==
    /\ \A i \in 1..Len(log) :
          log[i] \in {"clear", "open"} => \E j \in 1..(i - 1) : log[j] = "kill"
    /\ \A i \in 1..Len(log) : \A j \in 1..Len(log) :
          (log[i] = "open" /\ log[j] \in {"kill", "killcall"}) => j < i
    /\ \A i \in 1..Len(log) :
          log[i] = "stop" =>
             \E j \in 1..(i - 1) : \E k \in 1..(i - 1) :
                j < k /\ log[j] = "kill" /\ log[k] = "open"
    /\ ~IS_RUNNING => "stop" \in Range(log)

\* C1 witness: the flag is false after a kill was issued and after a locked
\* open was retried.
C1_Witness ==
    /\ ~IS_RUNNING
    /\ killCalls # <<>>
    /\ "locked" \in Range(opens)
    /\ Last(opens) = "ok"

\* C2 (as claimed): once a proc.kill() has failed and the watcher has ended,
\* proc.kill() was called on every process of the selected name and the
\* truncate step was attempted.
C2_Claim ==
    (WatcherEnded /\ wexc \in {"NoSuchProcess", "AccessDenied"}) =>
       /\ Selected \subseteq Range(killCalls)
       /\ "clear" \in Range(log)

\* C3 (as claimed): the responder never propagates a failure: once it was
\* entered and the watcher has ended, the watcher has set IS_RUNNING to false.
C3_Claim ==
    (ResponderEntered /\ WatcherEnded) => (~IS_RUNNING /\ wexc = "none")

\* C4: the kill step, the truncate step and the assignment of False to
\* IS_RUNNING each happen at most once, and IS_RUNNING is false exactly
\* from that assignment on (it never returns to true), also when the batch
\* holds several events for the target name.
C4_ResponderAtMostOnce ==
    /\ Count(log, "kill") <= 1
    /\ Count(log, "clear") <= 1
    /\ Count(log, "stop") <= 1
    /\ IS_RUNNING <=> "stop" \notin Range(log)

\* C4 witness: a batch with two or more events for the target name was
\* delivered, the responder ran once, and the watcher is at the while test
\* that ends it.
C4_Witness ==
    /\ batchMatches >= 2
    /\ wpc = "while"
    /\ ~IS_RUNNING
    /\ log[Len(log)] = "stop"

\* C5: at most 5 opens; an open is followed by another only when it found
\* the file locked; with only locked opens the step goes on until the 5th and
\* then returns normally with the file as it was; an open that succeeds leaves
\* the file empty and ends the step; another error ends the watcher.
C5_RetryPolicy ==
    /\ Len(opens) <= 5
    /\ \A i \in 1..(Len(opens) - 1) : opens[i] = "locked"
    /\ (ClearReturned /\ AllLocked(opens)) =>
          /\ Len(opens) = 5
          /\ fileExists = file0.exists
          /\ fileLen = file0.len
          /\ wexc = "none"
    /\ ("clear" \in Range(log) /\ AllLocked(opens) /\ Len(opens) < 5) =>
          wpc \in {"clear", "retry_sleep"}
    /\ (opens # <<>> /\ Last(opens) = "ok") =>
          /\ ClearReturned
          /\ fileExists
          /\ fileLen = 0
    /\ (opens # <<>> /\ Last(opens) = "error") => wpc = "crashed"

\* C5 witness: locked four times, free the fifth: truncated in 5 attempts.
C5_Witness ==
    /\ opens = <<"locked", "locked", "locked", "locked", "ok">>
    /\ file0.len > 0
    /\ fileLen = 0
    /\ wpc = "returned"

\* C6 (as claimed): the file existed with content, no open found it locked
\* or failed otherwise, the responder was entered and the watcher has ended:
\* the file exists and is empty.
C6_Claim ==
    (/\ file0.exists
     /\ file0.len > 0
     /\ ResponderEntered
     /\ WatcherEnded
     /\ \A i \in 1..Len(opens) : opens[i] = "ok") =>
       (fileExists /\ fileLen = 0)

\* C7: as long as no delivered batch held an event for the target name,
\* nothing was killed, no open was attempted, the file is as it was,
\* IS_RUNNING is true and the watcher, once it has read a batch, is iterating
\* it or back at the while test or at the blocking read.
C7_NoMatchNoResponse ==
    ~everMatched =>
       /\ log = <<>>
       /\ killCalls = <<>>
       /\ opens = <<>>
       /\ fileExists = file0.exists
       /\ fileLen = file0.len
       /\ IS_RUNNING
       /\ (reads > 0 => wpc \in {"for", "while", "read"})

\* C7 witness: two non-empty batches of events for other names were
\* iterated and the watcher is blocked in the read again.
C7_Witness ==
    /\ ~everMatched
    /\ reads >= 2
    /\ batchLen >= 1
    /\ wpc = "read"

\* C8: with len(sys.argv) other than 3 the main thread is still at the check
\* or has exited with status 1 after the usage line; the thread was never
\* started, no handle opened, no batch read, nothing killed or opened, and
\* input() never entered.
C8_BadArgsExitEarly ==
    argc # 3 =>
       /\ cpc \in {"check_args", "exited"}
       /\ (cpc = "exited" => (exitCode = 1 /\ usagePrinted))
       /\ wpc = "not_started"
       /\ ~h_dir
       /\ reads = 0
       /\ log = <<>>
       /\ ackWaits = 0

\* C8 witness: exited with status 1 on a wrong argument count.
C8_Witness ==
    /\ argc # 3
    /\ cpc = "exited"
    /\ exitCode = 1
    /\ usagePrinted

\* C9 (as claimed): once CreateFile on the directory has failed, the process
\* has exited non-zero without the controller having entered Watching.
C9_Claim ==
    (wpc = "crashed" /\ wexc = "CreateFile") =>
       /\ cpc = "exited"
       /\ exitCode # 0
       /\ "Watching" \notin Range(cpath)

ControllerPaths ==
    {<<"Starting", "Watching", "Triggered", "AwaitingAck", "Terminated">>,
     <<"Starting", "Watching", "Interrupted", "AwaitingAck", "Terminated">>,
     <<"Starting", "Terminated">>}

\* C10: the controller only moves along Starting, Watching, Triggered or
\* Interrupted, AwaitingAck, Terminated (or from Starting to Terminated on the
\* usage error); input() is entered once per AwaitingAck, and a process that
\* exits after Watching has entered it exactly once.
C10_ControllerPath ==
    /\ \E path \in ControllerPaths : IsPrefix(cpath, path)
    /\ ackWaits = Count(cpath, "AwaitingAck")
    /\ (cpc = "exited" /\ "Watching" \in Range(cpath)) => ackWaits = 1

\* C10 witness: exited after an interrupt, through one input().
C10_Witness ==
    /\ cpc = "exited"
    /\ "Interrupted" \in Range(cpath)
    /\ ackWaits = 1

\* the controller has left the wait loop through the flag, not the interrupt
LeftByFlag == cpc \in {"triggered", "input", "exited"} /\ ~IS_RUNNING
UserInterrupted == "Interrupted" \in Range(cpath)

\* C11 (as claimed): under fair scheduling of both threads, once a batch
\* with an event for the target name is delivered, eventually IS_RUNNING is
\* false and the controller has left the wait loop for input() (unless the
\* user interrupted first), whatever the kills and the opens do.
C11_Claim == everMatched ~> (LeftByFlag \/ UserInterrupted)

\* the kill step ran to its end: kill_process_by_name returned
KillReturned == "clear" \in Range(log)

\* C12: proc.kill() is only ever called on processes of the selected name,
\* at most once on each, and no other process stops running; when the kill
\* step returns (no kill failed), it was called exactly once on each of the
\* N selected processes, so with N = 0 not at all, and nothing was raised.
C12_KillsExactlySelected ==
    /\ Range(killCalls) \subseteq Selected
    /\ Len(killCalls) = Cardinality(Range(killCalls))
    /\ Pids \ alive \subseteq Range(killCalls)
    /\ KillReturned =>
          /\ Range(killCalls) = Selected
          /\ Len(killCalls) = Cardinality(Selected)
          /\ alive = Pids \ Selected
    /\ (Selected = {} /\ "kill" \in Range(log)) =>
          /\ killCalls = <<>>
          /\ wexc \in {"none", "OSError"}

\* C12 witness: two processes of the selected name, both killed, and the
\* kill step returned.
C12_Witness ==
    /\ Cardinality(Selected) >= 2
    /\ KillReturned
    /\ Len(killCalls) = Cardinality(Selected)
    /\ alive = Pids \ Selected

FiveLocked == Len(opens) = 5 /\ AllLocked(opens)

\* C13: when all 5 opens found the file locked, no exception ends the
\* watcher, the file is as it was, the watcher goes on to set IS_RUNNING to
\* false and to return without another read; and under fair scheduling the
\* watcher has then returned with the flag false and the main thread is in
\* input() (or the user has ended the process before).
C13_ExhaustionTolerated ==
    /\ [](FiveLocked =>
            /\ wexc = "none"
            /\ fileExists = file0.exists
            /\ fileLen = file0.len
            /\ wpc \in {"retry_sleep", "clear", "set_flag", "while", "returned"}
            /\ (wpc \in {"while", "returned"} => ~IS_RUNNING))
    /\ FiveLocked ~>
          \/ (wpc = "returned" /\ ~IS_RUNNING /\ cpc = "input")
          \/ cpc = "exited"

\* C13 witness: 5 locked opens, the file keeps its content, the watcher has
\* returned with the flag false and the main thread is in input() through
\* the flag.
C13_Witness ==
    /\ FiveLocked
    /\ file0.len > 0
    /\ fileLen = file0.len
    /\ wpc = "returned"
    /\ ~IS_RUNNING
    /\ cpc = "input"
    /\ "Triggered" \in Range(cpath)

\* the watcher is inside monitor_file at a step of its own (not waiting for
\* the operating system)
WatcherCanStep ==
    wpc \in {"open_dir", "while", "for", "kill", "clear", "retry_sleep",
             "set_flag"}

\* C14: IS_RUNNING changes only from true to false, only by the watcher's
\* step at line 78, after a batch with an event for the target name and after
\* both responder calls; no step of the main thread changes it; the interrupt
\* changes neither the flag nor the watcher's position, and while the main
\* thread is in the except clause or in input() the watcher can still take
\* its next step and receive the next batch.
C14_SingleWriter ==
    /\ [][IS_RUNNING' # IS_RUNNING =>
             /\ IS_RUNNING
             /\ wpc = "set_flag"
             /\ wpc' # wpc
             /\ cpc' = cpc
             /\ everMatched
             /\ "kill" \in Range(log)
             /\ "clear" \in Range(log)]_vars
    /\ [][cpc' # cpc => IS_RUNNING' = IS_RUNNING]_vars
    /\ [][(cpc' = "interrupted" /\ cpc # "interrupted") =>
             (IS_RUNNING' = IS_RUNNING /\ wpc' = wpc)]_vars
    /\ [](cpc \in {"interrupted", "input"} =>
             /\ WatcherCanStep => ENABLED WatcherThreadStep
             /\ (wpc = "read" /\ reads < MaxReads) => ENABLED W_Read)

\* C14 witness: the responder was entered while the main thread was in
\* input() after an interrupt; it killed, truncated and cleared the flag.
C14_Witness ==
    /\ lateMatch
    /\ cpc = "input"
    /\ killCalls # <<>>
    /\ opens # <<>>
    /\ Last(opens) = "ok"
    /\ ~IS_RUNNING

InWaitLoop == cpc \in {"while", "sleep"}

\* C15: the controller takes the Triggered way out only with IS_RUNNING
\* false; once it is false, the while test never starts another sleep (so at
\* most the sleep in progress is finished), and under fair scheduling the
\* controller leaves the wait loop.
C15_FlagRaceBenign ==
    /\ []("Triggered" \in Range(cpath) => ~IS_RUNNING)
    /\ [][(~IS_RUNNING /\ cpc = "while" /\ cpc' # cpc) =>
             cpc' \in {"triggered", "interrupted"}]_vars
    /\ (~IS_RUNNING /\ InWaitLoop) ~> ~InWaitLoop

\* C15 witness: the flag became false while the main thread was asleep.
C15_Witness ==
    /\ ~IS_RUNNING
    /\ cpc = "sleep"

\* C16: once the controller has left through Triggered, the last responder
\* step is the assignment of False (no kill, no open after it) and the
\* watcher is at the while test that ends it or has returned.
C16_ResponderDoneAtTriggered ==
    "Triggered" \in Range(cpath) =>
       /\ log # <<>>
       /\ Last(log) = "stop"
       /\ Count(log, "stop") = 1
       /\ wpc \in {"while", "returned"}

\* C16 witness: the process has exited through Triggered and input() after
\* a responder run with a kill and an open.
C16_Witness ==
    /\ cpc = "exited"
    /\ "Triggered" \in Range(cpath)
    /\ killCalls # <<>>
    /\ opens # <<>>
    /\ Last(log) = "stop"

\* C17 (as claimed): a delay is taken only between two attempts: 5 locked
\* attempts take exactly 4 delays, and a success on attempt k takes k - 1.
C17_Claim ==
    /\ (ClearReturned /\ FiveLocked) => delays = 4
    /\ (opens # <<>> /\ Last(opens) = "ok") => delays = Len(opens) - 1

\* C18: an event for the target name is never skipped and always enters
\* the responder, whatever its action code; the responder runs with the code
\* of that event; and an open that succeeds leaves a file of length 0 at the
\* path, also when there was none.
C18_AnyKindTriggers ==
    /\ (/\ ProcessAlive
        /\ wpc = "for"
        /\ results # <<>>
        /\ Head(results)[2] = FILE_TO_WATCH.name) =>
          (ENABLED W_ForMatch /\ ~ENABLED W_ForSkip)
    /\ wpc \in {"kill", "clear", "retry_sleep", "set_flag"} =>
          lastAction \in FileActions
    /\ lastAction # 0 => "kill" \in Range(log)
    /\ (opens # <<>> /\ Last(opens) = "ok") => (fileExists /\ fileLen = 0)

\* C18 witness: the event was a removal (code 2) of a file that did not
\* exist; the open succeeded and an empty file is at the path.
C18_Witness ==
    /\ lastAction = 2
    /\ ~file0.exists
    /\ opens # <<>>
    /\ Last(opens) = "ok"
    /\ fileExists
    /\ fileLen = 0

\* C19: the "The file is corrupted" line is printed at most once, exactly
\* once per open that succeeded, and not at all when 5 opens found the file
\* locked.
C19_MessageIffTruncated ==
    /\ corruptedMsgs <= 1
    /\ corruptedMsgs = Count(opens, "ok")
    /\ FiveLocked => corruptedMsgs = 0

\* C19 witness: the message was printed once, after two locked opens.
C19_Witness ==
    /\ corruptedMsgs = 1
    /\ opens = <<"locked", "locked", "ok">>
    /\ wpc = "returned"

====
